---- MODULE Spec2Model ----
(***************************************************************************)
(* Filter condition merging of automaton-js: simplifyCondition and         *)
(* updateComponentCondition (src/src/graphql.js, lines 172-304) over a     *)
(* heap of JavaScript objects.  Objects live at addresses 1..Len(heap), so *)
(* that "the very same object" (===) is equality of addresses and a write  *)
(* to an existing object is visible as a changed heap cell.                *)
(* Further: the graphql() service (src/src/graphql.js, lines 19-170), the  *)
(* config object (src/src/config.js), the Pagination component             *)
(* (src/unnamed/part_000) and Tree.appendRows (src/src/ui/tree/Tree.js).   *)
(***************************************************************************)
EXTENDS Integers, Sequences, FiniteSets, TLC

VARIABLES heap,              \* the object heap: address -> object
          currentCondition,  \* the composite the caller holds (queryConfig.condition)
          calls,             \* the calls of updateComponentCondition made so far
          before,            \* the heap as it was when the last call started
          applied,           \* the last application of simplifyCondition or
                             \* compareConditions on its own, with its result
          request,           \* the graphql() call under way: its parameters, what
                             \* was sent, what was received and what it resolved to
          config,            \* the config object of config.js: its properties,
                             \* VALID_KEYS and the last access
          pagination,        \* the Pagination component: its query, and the last click on it
          tree               \* the rows of the Tree: values, and the last call of appendRows

vars == <<heap, currentCondition, calls, before, applied, request, config, pagination, tree>>

\* ------------------------------------------------------------------ bounds

\* number of successive merges in a history that starts from the null composite
MaxCalls == 3
\* number of merges applied to a composite that was built outside the engine
MaxProbes == 2
\* number of addConfig calls on the config object
MaxAdds == 2
\* number of clicks on a Pagination component
MaxClicks == 2

\* ------------------------------------------------------------- node model

\* the null reference (addresses start at 1)
null == 0
\* the null component id (ids are strings in the model)
nullId == "null"

\* Type constants of FilterDSL; "Array" tags a JavaScript array object.
FIELD == "Field"
VALUE == "Value"
VALUES == "Values"
CONDITION == "Condition"
COMPONENT == "Component"
ARRAY == "Array"

\* the shape shared by every heap object (unused fields keep these defaults)
Blank ==
    [type |-> "", name |-> "", scalarType |-> "", value |-> "", values |-> <<>>,
     id |-> nullId, condition |-> null, operands |-> null, items |-> <<>>]

\* field(name)
field(name) == [Blank EXCEPT !.type = FIELD, !.name = name]

\* value(scalarType, value)
value(scalarType, val) ==
    [Blank EXCEPT !.type = VALUE, !.scalarType = scalarType, !.value = val]

\* values(scalarType, ...value)
values(scalarType, vals) ==
    [Blank EXCEPT !.type = VALUES, !.scalarType = scalarType, !.values = vals]

\* condition(name): operands are assigned by the caller afterwards
condition(name) == [Blank EXCEPT !.type = CONDITION, !.name = name]

\* component(id): condition is null until the caller assigns it
component(id) == [Blank EXCEPT !.type = COMPONENT, !.id = id]

\* a JavaScript array literal holding references
Array(items) == [Blank EXCEPT !.type = ARRAY, !.items = items]

\* a Condition whose operands have been assigned
conditionOf(name, operands) == [condition(name) EXCEPT !.operands = operands]

\* a Component marker whose condition has been assigned
componentOf(id, cond) == [component(id) EXCEPT !.condition = cond]

\* isLogicalCondition(node)
isLogicalCondition(h, node) ==
    h[node].type = CONDITION /\ h[node].name \in {"and", "or"}

\* the operand references of a Condition node
Operands(h, cond) == h[h[cond].operands].items

\* allocation of a new object: its address is Len(h) + 1
Alloc(h, obj) == Append(h, obj)

\* ------------------------------------------------------------ simplify

\* simplifyCondition with the test of the name lost: any Condition of
\* anonymous markers becomes null
simplifyConditionAnyName(h, cond) ==
    IF cond # null /\ h[cond].type = CONDITION
    THEN LET operands == Operands(h, cond)
         IN  IF \E i \in 1..Len(operands) :
                    \/ h[operands[i]].type # COMPONENT
                    \/ h[operands[i]].id # nullId
             THEN cond
             ELSE null
    ELSE cond

\* simplifyCondition that keeps an "and" without operands
simplifyConditionNonEmpty(h, cond) ==
    IF cond # null /\ h[cond].type = CONDITION /\ h[cond].name = "and"
    THEN LET operands == Operands(h, cond)
         IN  IF \/ Len(operands) = 0
                \/ \E i \in 1..Len(operands) :
                      \/ h[operands[i]].type # COMPONENT
                      \/ h[operands[i]].id # nullId
             THEN cond
             ELSE null
    ELSE cond

\* simplifyCondition(cond)
simplifyCondition(h, cond) ==
    IF cond # null /\ h[cond].type = CONDITION /\ h[cond].name = "and"
    THEN LET operands == Operands(h, cond)
         IN  IF \E i \in 1..Len(operands) :
                    \/ h[operands[i]].type # COMPONENT
                    \/ h[operands[i]].id # nullId
             THEN cond
             ELSE null
    ELSE cond

\* ---------------------------------------------------------- comparator

RECURSIVE compareUnordered(_, _, _, _)
\* compareConditions that takes Values and operand lists for sets
compareUnordered(h, a, b, treatEmptyAsEqual) ==
    IF a = null /\ b = null THEN TRUE
    ELSE IF a = null THEN treatEmptyAsEqual /\ simplifyCondition(h, b) = null
    ELSE IF b = null THEN treatEmptyAsEqual /\ simplifyCondition(h, a) = null
    ELSE IF h[a].type # h[b].type THEN FALSE
    ELSE IF h[a].type = CONDITION
         THEN /\ h[a].name = h[b].name
              /\ Len(Operands(h, a)) = Len(Operands(h, b))
              /\ \A i \in 1..Len(Operands(h, a)) :
                    \E j \in 1..Len(Operands(h, b)) :
                        compareUnordered(h, Operands(h, a)[i], Operands(h, b)[j],
                                         treatEmptyAsEqual)
    ELSE IF h[a].type = COMPONENT
         THEN /\ h[a].id = h[b].id
              /\ compareUnordered(h, h[a].condition, h[b].condition,
                                  treatEmptyAsEqual)
    ELSE IF h[a].type = VALUE
         THEN h[a].scalarType = h[b].scalarType /\ h[a].value = h[b].value
    ELSE IF h[a].type = VALUES
         THEN /\ h[a].scalarType = h[b].scalarType
              /\ Len(h[a].values) = Len(h[b].values)
              /\ {h[a].values[i] : i \in 1..Len(h[a].values)}
                   = {h[b].values[i] : i \in 1..Len(h[b].values)}
    ELSE h[a].name = h[b].name

RECURSIVE compareOneWay(_, _, _, _)
\* compareConditions that knows the empty representation on one side only: a
\* non-null a is never equal to a null b
compareOneWay(h, a, b, treatEmptyAsEqual) ==
    IF a = null /\ b = null THEN TRUE
    ELSE IF a = null THEN treatEmptyAsEqual /\ simplifyCondition(h, b) = null
    ELSE IF b = null THEN FALSE
    ELSE IF h[a].type # h[b].type THEN FALSE
    ELSE IF h[a].type = CONDITION
         THEN /\ h[a].name = h[b].name
              /\ Len(Operands(h, a)) = Len(Operands(h, b))
              /\ \A i \in 1..Len(Operands(h, a)) :
                    compareOneWay(h, Operands(h, a)[i], Operands(h, b)[i],
                                  treatEmptyAsEqual)
    ELSE IF h[a].type = COMPONENT
         THEN /\ h[a].id = h[b].id
              /\ compareOneWay(h, h[a].condition, h[b].condition, treatEmptyAsEqual)
    ELSE IF h[a].type = VALUE
         THEN h[a].scalarType = h[b].scalarType /\ h[a].value = h[b].value
    ELSE IF h[a].type = VALUES
         THEN h[a].scalarType = h[b].scalarType /\ h[a].values = h[b].values
    ELSE h[a].name = h[b].name

RECURSIVE compareConditions(_, _, _, _)
\* compareConditions(a, b, treatEmptyAsEqual)
compareConditions(h, a, b, treatEmptyAsEqual) ==
    IF a = null /\ b = null THEN TRUE
    ELSE IF a = null THEN treatEmptyAsEqual /\ simplifyCondition(h, b) = null
    ELSE IF b = null THEN treatEmptyAsEqual /\ simplifyCondition(h, a) = null
    ELSE IF h[a].type # h[b].type THEN FALSE
    ELSE IF h[a].type = CONDITION
         THEN /\ h[a].name = h[b].name
              /\ Len(Operands(h, a)) = Len(Operands(h, b))
              /\ \A i \in 1..Len(Operands(h, a)) :
                    compareConditions(h, Operands(h, a)[i], Operands(h, b)[i],
                                      treatEmptyAsEqual)
    ELSE IF h[a].type = COMPONENT
         THEN /\ h[a].id = h[b].id
              /\ compareConditions(h, h[a].condition, h[b].condition,
                                   treatEmptyAsEqual)
    ELSE IF h[a].type = VALUE
         THEN h[a].scalarType = h[b].scalarType /\ h[a].value = h[b].value
    ELSE IF h[a].type = VALUES
         THEN h[a].scalarType = h[b].scalarType /\ h[a].values = h[b].values
    ELSE h[a].name = h[b].name

\* ---------------------------------------------------------------- merge

\* the outcome of a call: the heap it leaves, and the value it returns or the
\* error it throws
Return(h, ref) == [heap |-> h, threw |-> FALSE, error |-> "", value |-> ref]
Throw(h, message) == [heap |-> h, threw |-> TRUE, error |-> message, value |-> null]

\* the two errors of updateComponentCondition
InvalidCurrentCondition == "Invalid current condition in queryConfig"
InvalidComponentStructure == "Invalid component condition structure"

\* push taken for unshift: the node is put in front
unshift(h, array, node) == [h EXCEPT ![array].items = <<node>> \o @]

\* componentConditions.push(node)
push(h, array, node) == [h EXCEPT ![array].items = Append(@, node)]

\* isUpdatedId with the comparison of ids lost: no operand is ever taken for the
\* one to update
isUpdatedIdNever(h, componentNode, componentId) == FALSE

\* "is it the id we're updating?": componentNode.id === componentId
isUpdatedId(h, componentNode, componentId) == h[componentNode].id = componentId

\* skipUpdate with the short-circuit lost: every update rebuilds the tree
skipUpdateNever(h, componentNode, newComponentNode, compareUpdate) == FALSE

\* skipUpdate with the two simplifyCondition calls lost
skipUpdateUnsimplified(h, componentNode, newComponentNode, compareUpdate) ==
    /\ compareUpdate
    /\ compareConditions(h, h[componentNode].condition,
                            h[newComponentNode].condition, TRUE)

\* skipUpdate that takes a cleared filter (a null predicate) for no change
skipUpdateWhenCleared(h, componentNode, newComponentNode, compareUpdate) ==
    /\ compareUpdate
    /\ \/ h[newComponentNode].condition = null
       \/ compareConditions(h, simplifyCondition(h, h[componentNode].condition),
                               simplifyCondition(h, h[newComponentNode].condition),
                               TRUE)

\* skipUpdate with the compareUpdate flag ignored
skipUpdateAnyFlag(h, componentNode, newComponentNode, compareUpdate) ==
    compareConditions(h, simplifyCondition(h, h[componentNode].condition),
                         simplifyCondition(h, h[newComponentNode].condition),
                         TRUE)

\* compareUpdate && compareConditions(simplifyCondition(componentNode.condition),
\*                                    simplifyCondition(newComponentNode.condition), true)
skipUpdate(h, componentNode, newComponentNode, compareUpdate) ==
    /\ compareUpdate
    /\ compareConditions(h, simplifyCondition(h, h[componentNode].condition),
                            simplifyCondition(h, h[newComponentNode].condition),
                            TRUE)

\* pushIfNotFound with the test of found lost: the new marker is always appended
pushAlways(h, componentConditions, newComponentNode, found) ==
    [h EXCEPT ![componentConditions].items = Append(@, newComponentNode)]

\* pushIfNotFound with the test inverted: a new id is never appended
pushIfFound(h, componentConditions, newComponentNode, found) ==
    IF found THEN push(h, componentConditions, newComponentNode) ELSE h

\* pushIfNotFound that joins a new id only with a predicate: a marker without
\* condition is not appended
pushIfNotFoundAndSet(h, componentConditions, newComponentNode, found) ==
    IF ~found /\ h[newComponentNode].condition # null
    THEN push(h, componentConditions, newComponentNode) ELSE h

\* if (!found) componentConditions.push(newComponentNode)
pushIfNotFound(h, componentConditions, newComponentNode, found) ==
    IF ~found THEN push(h, componentConditions, newComponentNode) ELSE h

\* returnNewCondition that reuses the composite it was given: the rebuilt list
\* is assigned to compositeCondition.operands and compositeCondition returned
returnSameCondition(h, compositeCondition, componentConditions) ==
    Return([h EXCEPT ![compositeCondition].operands = componentConditions],
           compositeCondition)

\* returnNewCondition that names every new root "and"
returnNewAndCondition(h, compositeCondition, componentConditions) ==
    LET h1 == Alloc(h, condition("and"))
        newCondition == Len(h1)
    IN  Return([h1 EXCEPT ![newCondition].operands = componentConditions], newCondition)

\* newCondition = condition(compositeCondition.name);
\* newCondition.operands = componentConditions; return newCondition
returnNewCondition(h, compositeCondition, componentConditions) ==
    LET h1 == Alloc(h, condition(h[compositeCondition].name))
        newCondition == Len(h1)
    IN  Return([h1 EXCEPT ![newCondition].operands = componentConditions], newCondition)

\* createRoot that takes a first contribution without constraint for no
\* change and returns the null composite
createRootUnlessEmpty(h, newComponentNode) ==
    IF simplifyCondition(h, h[newComponentNode].condition) = null
    THEN Return(h, null)
    ELSE LET h1 == Alloc(h, condition("and"))
             newCondition == Len(h1)
             h2 == Alloc(h1, Array(<<newComponentNode>>))
         IN  Return([h2 EXCEPT ![newCondition].operands = Len(h2)], newCondition)

\* the null composite: newCondition = condition("and"); newCondition.operands = [ newComponentNode ]
createRoot(h, newComponentNode) ==
    LET h1 == Alloc(h, condition("and"))
        newCondition == Len(h1)
        h2 == Alloc(h1, Array(<<newComponentNode>>))
    IN  Return([h2 EXCEPT ![newCondition].operands = Len(h2)], newCondition)

RECURSIVE walkOperandsMoveToEnd(_, _, _, _, _, _, _, _)
\* walkOperands that drops the operand being updated from its place, so that
\* the new marker is appended after the loop
walkOperandsMoveToEnd(h, compositeCondition, newComponentNode, componentId, compareUpdate, componentConditions, i, found) ==
    LET operands == Operands(h, compositeCondition)
    IN  IF i > Len(operands)
        THEN [heap |-> h, pc |-> "done", found |-> found]
        ELSE LET componentNode == operands[i]
             IN  IF h[componentNode].type # COMPONENT
                 THEN [heap |-> h, pc |-> "throw", found |-> found]
                 ELSE IF isUpdatedId(h, componentNode, componentId)
                 THEN IF skipUpdate(h, componentNode, newComponentNode, compareUpdate)
                      THEN [heap |-> h, pc |-> "return", found |-> found]
                      ELSE walkOperandsMoveToEnd(
                               h, compositeCondition, newComponentNode, componentId,
                               compareUpdate, componentConditions, i + 1, found)
                 ELSE walkOperandsMoveToEnd(
                          push(h, componentConditions, componentNode),
                          compositeCondition, newComponentNode, componentId,
                          compareUpdate, componentConditions, i + 1, found)

RECURSIVE walkOperands(_, _, _, _, _, _, _, _)
\* the for loop over compositeCondition.operands, from index i on; pc tells how
\* it ends: "throw", "return" (the early return of the composite) or "done"
walkOperands(h, compositeCondition, newComponentNode, componentId, compareUpdate, componentConditions, i, found) ==
    LET operands == Operands(h, compositeCondition)
    IN  IF i > Len(operands)
        THEN [heap |-> h, pc |-> "done", found |-> found]
        ELSE LET componentNode == operands[i]
             IN  IF h[componentNode].type # COMPONENT
                 THEN [heap |-> h, pc |-> "throw", found |-> found]
                 ELSE IF isUpdatedId(h, componentNode, componentId)
                 THEN IF skipUpdate(h, componentNode, newComponentNode, compareUpdate)
                      THEN [heap |-> h, pc |-> "return", found |-> found]
                      ELSE walkOperands(
                               push(h, componentConditions, newComponentNode),
                               compositeCondition, newComponentNode, componentId,
                               compareUpdate, componentConditions, i + 1, TRUE)
                 ELSE walkOperands(
                          push(h, componentConditions, componentNode),
                          compositeCondition, newComponentNode, componentId,
                          compareUpdate, componentConditions, i + 1, found)

\* the rebuild of the operand list: const componentConditions = []; the loop;
\* the append of a new marker; the new Condition
rebuildOperands(h, compositeCondition, newComponentNode, componentId, compareUpdate) ==
    LET h1 == Alloc(h, Array(<<>>))
        componentConditions == Len(h1)
        w == walkOperands(h1, compositeCondition, newComponentNode, componentId,
                          compareUpdate, componentConditions, 1, FALSE)
    IN  IF w.pc = "throw" THEN Throw(w.heap, InvalidComponentStructure)
        ELSE IF w.pc = "return" THEN Return(w.heap, compositeCondition)
        ELSE returnNewCondition(
                 pushIfNotFound(w.heap, componentConditions, newComponentNode, w.found),
                 compositeCondition, componentConditions)

\* updateExisting with the root test reduced to "is a Condition", whatever
\* its name
updateExistingAnyCondition(h, compositeCondition, newComponentNode, componentId, compareUpdate) ==
    IF h[compositeCondition].type # CONDITION
    THEN Throw(h, InvalidCurrentCondition)
    ELSE rebuildOperands(h, compositeCondition, newComponentNode, componentId,
                         compareUpdate)

\* the else branch: compositeCondition is not null
updateExisting(h, compositeCondition, newComponentNode, componentId, compareUpdate) ==
    IF ~isLogicalCondition(h, compositeCondition)
    THEN Throw(h, InvalidCurrentCondition)
    ELSE rebuildOperands(h, compositeCondition, newComponentNode, componentId,
                         compareUpdate)

\* updateComponentCondition(compositeCondition, componentCondition, componentId, compareUpdate)
updateComponentCondition(h, compositeCondition, componentCondition, componentId, compareUpdate) ==
    LET h1 == Alloc(h, componentOf(componentId, componentCondition))
        newComponentNode == Len(h1)
    IN  IF compositeCondition = null
        THEN createRoot(h1, newComponentNode)
        ELSE updateExisting(h1, compositeCondition, newComponentNode, componentId,
                            compareUpdate)

\* ------------------------------------------------------ predicates in use

\* The predicates the widgets have built with the FilterDSL before any merge:
\*   4   gte(field("age"), value("Int", "18"))
\*   8   the same predicate, built a second time (another object)
\*   11  and(component(null, null))
\*   14  and(component(null, <4>)): an anonymous marker that carries a predicate
\*   17  and(component(null, null), component(null, null))
Pool ==
    << field("age"), value("Int", "18"), Array(<<1, 2>>), conditionOf("gte", 3),
       field("age"), value("Int", "18"), Array(<<5, 6>>), conditionOf("gte", 7),
       componentOf(nullId, null), Array(<<9>>), conditionOf("and", 10),
       componentOf(nullId, 4), Array(<<12>>), conditionOf("and", 13),
       componentOf(nullId, null), Array(<<9, 15>>), conditionOf("and", 16) >>

\* the predicates a widget may contribute (componentCondition)
Predicates == {null, 4, 8, 11, 14}

\* the same, with the "and" of two empty anonymous markers
MorePredicates == Predicates \cup {17}

\* Further nodes built with the FilterDSL, after the pool:
\*   19  and()                                   24  and(component(null, null), field("age"))
\*   22  and(component("a", null))               26  or(component(null, null))
\*   28  not(<11>)                               30  not(null operand: component(null, null))
\*   31..35  Values nodes                        37  gte(value, field): <4> with operands swapped
\*   38, 39  value("Int", "21"), value("String", "18")
\*   41  or(<4>, <37>)                           43  or(<37>, <4>)
\*   44  a third values("String", "a", "b")
Nodes ==
    Pool \o
    << Array(<< >>), conditionOf("and", 18),
       componentOf("a", null), Array(<<20>>), conditionOf("and", 21),
       Array(<<9, 1>>), conditionOf("and", 23),
       Array(<<9>>), conditionOf("or", 25),
       Array(<<11>>), conditionOf("not", 27),
       Array(<<9>>), conditionOf("not", 29),
       values("String", <<"a", "b">>), values("String", <<"b", "a">>),
       values("String", <<"a", "b">>), values("Int", <<"a", "b">>),
       values("String", <<"a">>),
       Array(<<2, 1>>), conditionOf("gte", 36),
       value("Int", "21"), value("String", "18"),
       Array(<<4, 37>>), conditionOf("or", 40),
       Array(<<37, 4>>), conditionOf("or", 42),
       values("String", <<"a", "b">>) >>

\* the references a caller can pass for a node: null and every object of h
\* that is not an array
NodeRefs(h) == {null} \cup {a \in 1..Len(h) : h[a].type # ARRAY}

\* no variables given (params.variables is undefined)
NoVariables == [defined |-> FALSE, map |-> << >>]

\* no call of graphql() yet
NoRequest ==
    [pc |-> "idle", decl |-> 1, autoConvert |-> "undefined", variables |-> NoVariables,
     sent |-> NoVariables, raw |-> << >>, data |-> << >>, error |-> ""]

\* ---- config.js: the data

\* the property names in use; Symbols are the names that are Symbol values,
\* every other name is a string
Symbols == {"Symbol(s)"}
PropertyNames == {"contextPath", "bogus", "extra"} \cup Symbols

\* DEFAULT_OPTS
DEFAULT_OPTS == [name \in {"contextPath"} |-> "default"]

\* the values assigned to properties
ConfigValues == {"v1", "v2"}

\* no error
NoError == << >>

\* no access to the config object yet
NoAccess ==
    [op |-> "", property |-> "", value |-> "", threw |-> FALSE, error |-> NoError,
     result |-> "", resultKeys |-> << >>,
     storeBefore |-> << >>, keysBefore |-> << >>]

\* the config object after the module is loaded: applyDefaults has copied
\* DEFAULT_OPTS to the proxied object, VALID_KEYS = Object.keys(DEFAULT_OPTS)
DefaultConfig ==
    [store |-> [name \in PropertyNames |->
                  IF name \in DOMAIN DEFAULT_OPTS THEN DEFAULT_OPTS[name]
                  ELSE "undefined"],
     VALID_KEYS |-> <<"contextPath">>,
     last |-> NoAccess]

\* ---- Pagination: the data

BUTTON_FIRST == "Pagination:First"
BUTTON_PREV == "Pagination:Prev"
BUTTON_NEXT == "Pagination:Next"
BUTTON_LAST == "Pagination:Last"

\* a button with a name, and a button with an offset (no name: "")
Named(name) == [name |-> name, offset |-> 0]
Offset(offset) == [name |-> "", offset |-> offset]

DEFAULT_BUTTON_CONFIG ==
    << Named(BUTTON_FIRST), Named(BUTTON_PREV),
       Offset(-3), Offset(-2), Offset(-1), Offset(0), Offset(1), Offset(2), Offset(3),
       Named(BUTTON_NEXT), Named(BUTTON_LAST) >>

\* getPageSize(value): the page size of "All Rows"
AllRows == 2147483647

\* DEFAULT_PAGE_SIZES, each as the value of its option
DEFAULT_PAGE_SIZES == <<5, 10, 50, AllRows>>

\* the row counts of the queries in use
RowCounts == {0, 3, 5, 6, 12, 23, 38}

\* no click yet
NoClick ==
    [control |-> "", idx |-> 0, rowCount |-> 0, pageSize |-> 0, offset |-> 0,
     page |-> 0, hidden |-> FALSE, element |-> "", updated |-> FALSE, update |-> 0]

\* a Pagination over a query without rows
NoPagination == [rowCount |-> 0, pageSize |-> 5, offset |-> 0, clicks |-> 0, last |-> NoClick]

\* ---- Tree: the data

\* a data row: its fields, and the properties added to the object later, each
\* as the key and the fields of the row stored under it
Row(name, data) == [name |-> name, data |-> data, props |-> {}]

\* the rows a Tree has loaded, and the rows a later query delivers
ExistingRows == {Row("a", "old"), Row("b", "old")}
NewRows == {Row("a", "new"), Row("c", "new"), Row("c", "old")}

\* the lists of at most two rows
RowLists(rows) == {<< >>} \cup {<<r>> : r \in rows} \cup {<<r, q>> : r \in rows, q \in rows}

\* no call of appendRows yet
NoAppend ==
    [called |-> FALSE, rowsBefore |-> << >>, newRows |-> << >>, newQueryConfig |-> "",
     nameField |-> "", pos |-> 0]

\* a Tree without rows
NoTree == [values |-> [rows |-> << >>, queryConfig |-> "q0"], last |-> NoAppend]

\* no function applied on its own yet
NotApplied == [fn |-> "", a |-> null, b |-> null, flag |-> FALSE, result |-> null]

\* the component ids in use (componentId; null is the default)
ComponentIds == {nullId, "a", "b"}

\* Composites that reach the engine from outside (restored or hand-built
\* queryConfig.condition values), each as the objects it adds to the pool and
\* the address of its root, relative to the end of the pool.
ForeignComposites ==
    LET n == Len(Pool)
    IN  { \* and(component("a", <4>), component("b", null))
          [objects |-> << componentOf("a", 4), componentOf("b", null),
                          Array(<<n + 1, n + 2>>), conditionOf("and", n + 3) >>,
           root |-> n + 4],
          \* or(component("a", <4>))
          [objects |-> << componentOf("a", 4), Array(<<n + 1>>),
                          conditionOf("or", n + 2) >>,
           root |-> n + 3],
          \* and(component("a", null), field("age"))
          [objects |-> << componentOf("a", null), Array(<<n + 1, 1>>),
                          conditionOf("and", n + 2) >>,
           root |-> n + 3],
          \* and(field("age"), component("a", null))
          [objects |-> << componentOf("a", null), Array(<<1, n + 1>>),
                          conditionOf("and", n + 2) >>,
           root |-> n + 3],
          \* or(field("age"))
          [objects |-> << Array(<<1>>), conditionOf("or", n + 1) >>,
           root |-> n + 2],
          \* not(component("a", null))
          [objects |-> << componentOf("a", null), Array(<<n + 1>>),
                          conditionOf("not", n + 2) >>,
           root |-> n + 3],
          \* component("a", null) as the root
          [objects |-> << componentOf("a", null) >>, root |-> n + 1],
          \* field("age"), value("Int", "18") and gte(...) as the root
          [objects |-> << >>, root |-> 1],
          [objects |-> << >>, root |-> 2],
          [objects |-> << >>, root |-> 4],
          \* no composite yet
          [objects |-> << >>, root |-> null] }

\* ---------------------------------------------------------- state machine

\* A history of merges starts with no composite at all.
Init ==
    /\ heap = Pool
    /\ currentCondition = null
    /\ calls = << >>
    /\ before = Pool
    /\ applied = NotApplied
    /\ request = NoRequest
    /\ config = DefaultConfig
    /\ pagination = NoPagination
    /\ tree = NoTree

\* A composite built outside the engine (or none yet) is about to be updated.
InitForeign ==
    \E c \in ForeignComposites :
        /\ heap = Pool \o c.objects
        /\ currentCondition = c.root
        /\ calls = << >>
        /\ before = heap
        /\ applied = NotApplied
        /\ request = NoRequest
        /\ config = DefaultConfig
        /\ pagination = NoPagination
        /\ tree = NoTree

\* One widget reports its filter: the caller runs updateComponentCondition on
\* a composite and keeps what the call returns as the composite it holds; when
\* the call throws, the composite it holds stays.
CallOn(compositeCondition, componentCondition, componentId, compareUpdate) ==
    LET r == updateComponentCondition(heap, compositeCondition, componentCondition,
                                      componentId, compareUpdate)
    IN  /\ heap' = r.heap
        /\ before' = heap
        /\ currentCondition' = IF r.threw THEN currentCondition ELSE r.value
        /\ calls' = Append(calls,
                      [compositeCondition |-> compositeCondition,
                       componentCondition |-> componentCondition,
                       componentId |-> componentId,
                       compareUpdate |-> compareUpdate,
                       threw |-> r.threw,
                       error |-> r.error,
                       value |-> r.value])
        /\ UNCHANGED <<applied, request, config, pagination, tree>>

\* the call is made on the composite the caller holds
Call(componentCondition, componentId, compareUpdate) ==
    CallOn(currentCondition, componentCondition, componentId, compareUpdate)

Merge ==
    /\ Len(calls) < MaxCalls
    /\ \E p \in Predicates, id \in ComponentIds, cu \in BOOLEAN : Call(p, id, cu)

Probe ==
    /\ Len(calls) < MaxProbes
    /\ \E p \in MorePredicates, id \in ComponentIds, cu \in BOOLEAN : Call(p, id, cu)

Next == Merge

NextForeign == Probe

Spec == Init /\ [][Next]_vars

SpecForeign == InitForeign /\ [][NextForeign]_vars

\* A caller that does not keep to the latest tree: the composites it starts
\* with are the well-formed ones (null, or a logical Condition of markers).
InitStale ==
    /\ InitForeign
    /\ \/ currentCondition = null
       \/ /\ isLogicalCondition(heap, currentCondition)
          /\ \A i \in 1..Len(Operands(heap, currentCondition)) :
                heap[Operands(heap, currentCondition)[i]].type = COMPONENT

\* A second widget merges into the snapshot the previous call was made on,
\* not into what that call returned, and its result is stored last.
StaleProbe ==
    /\ Len(calls) > 0
    /\ Len(calls) < MaxProbes
    /\ \E p \in MorePredicates, id \in ComponentIds, cu \in BOOLEAN :
          CallOn(calls[Len(calls)].compositeCondition, p, id, cu)

NextStale == Probe \/ StaleProbe

SpecStale == InitStale /\ [][NextStale]_vars

\* The nodes are there and no merge is made: one of the two functions is
\* applied to them on its own.
InitNodes ==
    /\ heap = Nodes
    /\ currentCondition = null
    /\ calls = << >>
    /\ before = Nodes
    /\ applied = NotApplied
    /\ request = NoRequest
    /\ config = DefaultConfig
    /\ pagination = NoPagination
    /\ tree = NoTree

\* simplifyCondition(node)
Simplify ==
    \E node \in NodeRefs(heap) :
        /\ applied = NotApplied
        /\ applied' = [fn |-> "simplifyCondition", a |-> node, b |-> null,
                       flag |-> FALSE, result |-> simplifyCondition(heap, node)]
        /\ UNCHANGED <<heap, currentCondition, calls, before, request, config, pagination, tree>>

\* compareConditions(a, b, treatEmptyAsEqual); its result is kept as 1 (true)
\* or 0 (false)
Compare ==
    \E a \in NodeRefs(heap), b \in NodeRefs(heap), flag \in BOOLEAN :
        /\ applied = NotApplied
        /\ applied' = [fn |-> "compareConditions", a |-> a, b |-> b, flag |-> flag,
                       result |-> IF compareConditions(heap, a, b, flag)
                                  THEN 1 ELSE 0]
        /\ UNCHANGED <<heap, currentCondition, calls, before, request, config, pagination, tree>>

NextNodes == Simplify \/ Compare

SpecNodes == InitNodes /\ [][NextNodes]_vars

\* ------------------------------------------------------------- graphql()

\* A JavaScript or wire value: the value as first given and the conversions
\* applied to it since, each as <<type, direction>>.
Val(v) == [v |-> v, conv |-> << >>]

\* wireFormat.convert(type, value, fromWire): not the identity; the value
\* remembers the type and the direction it was converted with
convert(type, val, fromWire) ==
    [val EXCEPT !.conv = Append(@, <<type, IF fromWire THEN "fromWire" ELSE "toWire">>)]

\* variables given as an object
Variables(map) == [defined |-> TRUE, map |-> map]

\* The query declarations in use (queryDecl.getQueryDefinition()): the declared
\* variable types, the queried methods and the aliases of methods.
QueryDecls ==
    << [vars |-> [n \in {"x", "y"} |-> IF n = "x" THEN "Int" ELSE "Date"],
        methods |-> <<"getFoo">>,
        aliases |-> [m \in {} |-> ""]],
       [vars |-> [n \in {"x"} |-> "Int"],
        methods |-> <<"getFoo", "getBar">>,
        aliases |-> [m \in {"getFoo"} |-> "foo"]],
       [vars |-> [n \in {} |-> ""],
        methods |-> <<"getBar">>,
        aliases |-> [m \in {"getBar"} |-> "bar"]] >>

\* getGraphQLMethodType(methodName)
getGraphQLMethodType(methodName) == IF methodName = "getFoo" THEN "Foo" ELSE "Bar"

\* the variables a caller may pass
VariableChoices ==
    {NoVariables} \cup
    {Variables([n \in names |-> Val("1")]) : names \in SUBSET {"x", "y"}}

\* params.autoConvert: not given, true or false
AutoConvertChoices == {"undefined", "true", "false"}

\* the values a server may answer with
ResponseValues == {Val("r1"), Val("r2")}

\* the key under which the response carries a method's result
ResponseKey(decl, methodName) ==
    IF methodName \in DOMAIN decl.aliases THEN decl.aliases[methodName] ELSE methodName

\* the responses to a query: every queried method's result under its key
Responses(decl) ==
    [{ResponseKey(decl, decl.methods[i]) : i \in 1..Len(decl.methods)} -> ResponseValues]

\* const autoConvert = params.autoConvert !== false, taken for === true
autoConvertOnlyIfTrue(param) == param = "true"

\* const autoConvert = params.autoConvert !== false
autoConvertOf(param) == param # "false"

\* convertInput(varTypes, variables): the converted variables, or the error
convertInput(varTypes, variables) ==
    IF ~variables.defined
    THEN [threw |-> FALSE, out |-> NoVariables]
    ELSE IF \E name \in DOMAIN variables.map : name \notin DOMAIN varTypes
    THEN [threw |-> TRUE, out |-> NoVariables]
    ELSE [threw |-> FALSE,
          out |-> Variables([name \in DOMAIN variables.map |->
                               convert(varTypes[name], variables.map[name], FALSE)])]

RECURSIVE convertResult(_, _, _)
\* the loop over the methods, from index i on: data[methodName] =
\* getWireFormat().convert(typeRef, data[alias ? alias : methodName], true, ...)
convertResult(decl, data, i) ==
    IF i > Len(decl.methods) THEN data
    ELSE LET methodName == decl.methods[i]
             typeRef == getGraphQLMethodType(methodName)
         IN  convertResult(decl,
                 (methodName :> convert(typeRef, data[ResponseKey(decl, methodName)], TRUE))
                     @@ data,
                 i + 1)

\* graphql(params) up to fetch: the variables are converted unless autoConvert
\* is false, and the request is sent; convertInput may throw instead
SendRequest ==
    /\ request.pc = "idle"
    /\ \E d \in 1..Len(QueryDecls), variables \in VariableChoices,
          autoConvert \in AutoConvertChoices :
          LET decl == QueryDecls[d]
              in == IF autoConvertOf(autoConvert)
                    THEN convertInput(decl.vars, variables)
                    ELSE [threw |-> FALSE, out |-> variables]
          IN  request' = [request EXCEPT
                            !.pc = IF in.threw THEN "threw" ELSE "sent",
                            !.decl = d,
                            !.autoConvert = autoConvert,
                            !.variables = variables,
                            !.sent = in.out,
                            !.error = IF in.threw
                                      THEN "Cannot convert invalid variable" ELSE ""]
    /\ UNCHANGED <<heap, currentCondition, calls, before, applied, config, pagination, tree>>

\* the response carries errors: the promise is rejected
ReceiveErrors ==
    /\ request.pc = "sent"
    /\ request' = [request EXCEPT !.pc = "rejected", !.error = "QUERY ERROR"]
    /\ UNCHANGED <<heap, currentCondition, calls, before, applied, config, pagination, tree>>

\* the response carries data: converted unless autoConvert is false, then
\* the promise resolves to it
ReceiveData ==
    /\ request.pc = "sent"
    /\ \E data \in Responses(QueryDecls[request.decl]) :
          request' = [request EXCEPT
                        !.pc = "resolved",
                        !.raw = data,
                        !.data = IF autoConvertOf(request.autoConvert)
                                 THEN convertResult(QueryDecls[request.decl], data, 1)
                                 ELSE data]
    /\ UNCHANGED <<heap, currentCondition, calls, before, applied, config, pagination, tree>>

NextGraphql == SendRequest \/ ReceiveErrors \/ ReceiveData

SpecGraphql == Init /\ [][NextGraphql]_vars

\* --------------------------------------------------------------- config.js

\* !property: a boolean, true for the empty string only
Not(property) == [kind |-> "boolean", truth |-> (property = "")]

\* v instanceof Symbol: true for objects made by the Symbol constructor, false
\* for every primitive value
instanceofSymbol(v) == v.kind = "object" /\ v.class = "Symbol"

\* ensureValid(property): does it throw. The test !property instanceof Symbol
\* applies instanceof to the boolean !property.
ensureValid(property) ==
    IF ~instanceofSymbol(Not(property))
    THEN FALSE
    ELSE property \notin DOMAIN DEFAULT_OPTS

\* new Error("Invalid config key: " + property)
InvalidConfigKey(property) == <<"Invalid config key: ", property>>

\* the set trap: ensureValid(property); config[property] = value
set(c, property, val) ==
    IF ensureValid(property)
    THEN [config |-> c, threw |-> TRUE, error |-> InvalidConfigKey(property)]
    ELSE [config |-> [c EXCEPT !.store[property] = val],
          threw |-> FALSE, error |-> NoError]

\* the get trap, for "keys"
ConfigGetKeys ==
    /\ config' = [config EXCEPT
                    !.last = [NoAccess EXCEPT !.op = "get", !.property = "keys",
                                              !.resultKeys = config.VALID_KEYS,
                                              !.storeBefore = config.store,
                                              !.keysBefore = config.VALID_KEYS]]
    /\ UNCHANGED <<heap, currentCondition, calls, before, applied, request, pagination, tree>>

\* the get trap, for every other property
ConfigGet ==
    /\ \E property \in PropertyNames :
          config' = [config EXCEPT
                       !.last = [NoAccess EXCEPT
                                   !.op = "get", !.property = property,
                                   !.threw = ensureValid(property),
                                   !.error = IF ensureValid(property)
                                             THEN InvalidConfigKey(property)
                                             ELSE NoError,
                                   !.result = IF ensureValid(property) THEN ""
                                              ELSE config.store[property],
                                   !.storeBefore = config.store,
                                   !.keysBefore = config.VALID_KEYS]]
    /\ UNCHANGED <<heap, currentCondition, calls, before, applied, request, pagination, tree>>

\* the set trap
ConfigSet ==
    /\ \E property \in PropertyNames, val \in ConfigValues :
          LET r == set(config, property, val)
          IN  config' = [r.config EXCEPT
                           !.last = [NoAccess EXCEPT
                                       !.op = "set", !.property = property,
                                       !.value = val,
                                       !.threw = r.threw, !.error = r.error,
                                       !.storeBefore = config.store,
                                       !.keysBefore = config.VALID_KEYS]]
    /\ UNCHANGED <<heap, currentCondition, calls, before, applied, request, pagination, tree>>

\* the apply trap: config() returns VALID_KEYS
ConfigApply ==
    /\ config' = [config EXCEPT
                    !.last = [NoAccess EXCEPT !.op = "apply",
                                              !.resultKeys = config.VALID_KEYS,
                                              !.storeBefore = config.store,
                                              !.keysBefore = config.VALID_KEYS]]
    /\ UNCHANGED <<heap, currentCondition, calls, before, applied, request, pagination, tree>>

\* addConfig(name, value): VALID_KEYS.push(name); theConfig[name] = value
AddConfig ==
    /\ Len(config.VALID_KEYS) < Len(DefaultConfig.VALID_KEYS) + MaxAdds
    /\ \E name \in {"extra", "bogus"}, val \in ConfigValues :
          LET pushed == [config EXCEPT !.VALID_KEYS = Append(@, name)]
              r == set(pushed, name, val)
          IN  config' = [r.config EXCEPT
                           !.last = [NoAccess EXCEPT
                                       !.op = "addConfig", !.property = name,
                                       !.value = val,
                                       !.threw = r.threw, !.error = r.error,
                                       !.storeBefore = config.store,
                                       !.keysBefore = config.VALID_KEYS]]
    /\ UNCHANGED <<heap, currentCondition, calls, before, applied, request, pagination, tree>>

NextConfig == ConfigGetKeys \/ ConfigGet \/ ConfigSet \/ ConfigApply \/ AddConfig

SpecConfig == Init /\ [][NextConfig]_vars

\* -------------------------------------------------------------- Pagination

\* Math.ceil(rowCount / pageSize), for rowCount >= 0 and pageSize > 0
numPagesOf(rowCount, pageSize) ==
    (rowCount \div pageSize) + (IF rowCount % pageSize = 0 THEN 0 ELSE 1)

\* (offset / pageSize)|0: the quotient truncated towards zero
currentPageOf(offset, pageSize) ==
    IF offset >= 0 THEN offset \div pageSize ELSE -((-offset) \div pageSize)

\* getTargetPage(btn, currentPage, numPages); the names of the buttons in use
\* are the four known ones, so the throw for an unknown name is not reached
getTargetPage(btn, currentPage, numPages) ==
    IF btn.name # ""
    THEN IF btn.name = BUTTON_FIRST THEN 0
         ELSE IF btn.name = BUTTON_PREV THEN currentPage - 1
         ELSE IF btn.name = BUTTON_NEXT THEN currentPage + 1
         ELSE numPages - 1
    ELSE currentPage + btn.offset

\* what the component renders for a button: the target page, whether the
\* control is hidden (an empty span without handler), the element, its
\* data-offset and whether onClick: navigate is attached to it
renderButton(btn, rowCount, pageSize, offset) ==
    LET numPages == numPagesOf(rowCount, pageSize)
        currentPage == currentPageOf(offset, pageSize)
        page == getTargetPage(btn, currentPage, numPages)
        isCurrent == page = currentPage /\ btn.name = ""
        isDisabled == page = currentPage \/ page < 0 \/ page >= numPages
        hidden == isDisabled /\ btn.name = "" /\ ~isCurrent
    IN  [page |-> page,
         hidden |-> hidden,
         element |-> IF hidden THEN "" ELSE IF isCurrent \/ isDisabled THEN "span" ELSE "a",
         dataOffset |-> page * pageSize,
         onClick |-> ~hidden]

\* a click on the control rendered for a button; the handler navigate calls
\* iQuery.update({offset}) with the data-offset of the element, a number that
\* the attribute carries unchanged
ClickButton ==
    /\ pagination.clicks < MaxClicks
    /\ numPagesOf(pagination.rowCount, pagination.pageSize) > 1
    /\ \E idx \in 1..Len(DEFAULT_BUTTON_CONFIG) :
          LET r == renderButton(DEFAULT_BUTTON_CONFIG[idx], pagination.rowCount,
                                pagination.pageSize, pagination.offset)
          IN  pagination' =
                [pagination EXCEPT
                   !.clicks = @ + 1,
                   !.offset = IF r.onClick THEN r.dataOffset ELSE @,
                   !.last = [control |-> "button", idx |-> idx,
                             rowCount |-> pagination.rowCount,
                             pageSize |-> pagination.pageSize,
                             offset |-> pagination.offset,
                             page |-> r.page, hidden |-> r.hidden,
                             element |-> r.element,
                             updated |-> r.onClick,
                             update |-> IF r.onClick THEN r.dataOffset ELSE 0]]
    /\ UNCHANGED <<heap, currentCondition, calls, before, applied, request, config, tree>>

\* a choice in the page size select: changePageSize calls
\* iQuery.update({offset: 0, pageSize})
ChangePageSize ==
    /\ pagination.clicks < MaxClicks
    /\ \E i \in 1..Len(DEFAULT_PAGE_SIZES) :
          pagination' =
            [pagination EXCEPT
               !.clicks = @ + 1,
               !.offset = 0,
               !.pageSize = DEFAULT_PAGE_SIZES[i],
               !.last = [NoClick EXCEPT
                           !.control = "select", !.idx = i,
                           !.rowCount = pagination.rowCount,
                           !.pageSize = pagination.pageSize,
                           !.offset = pagination.offset,
                           !.updated = TRUE, !.update = 0]]
    /\ UNCHANGED <<heap, currentCondition, calls, before, applied, request, config, tree>>

\* a Pagination over a query with some rows, at a page of the query
InitPagination ==
    /\ heap = Pool
    /\ currentCondition = null
    /\ calls = << >>
    /\ before = Pool
    /\ applied = NotApplied
    /\ request = NoRequest
    /\ config = DefaultConfig
    /\ tree = NoTree
    /\ \E rowCount \in RowCounts, i \in 1..Len(DEFAULT_PAGE_SIZES) :
          LET pageSize == DEFAULT_PAGE_SIZES[i]
          IN  \E page \in 0..rowCount :
                /\ page = 0 \/ page < numPagesOf(rowCount, pageSize)
                /\ pagination = [NoPagination EXCEPT !.rowCount = rowCount,
                                                     !.pageSize = pageSize,
                                                     !.offset = page * pageSize]

NextPagination == ClickButton \/ ChangePageSize

SpecPagination == InitPagination /\ [][NextPagination]_vars

\* -------------------------------------------------------- Tree.appendRows

\* get(row, nameField)
get(row, nameField) == row[nameField]

\* rows.slice(from, to) and rows.slice(from), with indexes from 0
slice(rows, from, to) == SubSeq(rows, from + 1, IF to > Len(rows) THEN Len(rows) ELSE to)
sliceFrom(rows, from) == SubSeq(rows, from + 1, Len(rows))

\* the index (from 0) of the first row at pos or later with the name, or -1:
\* the inner loop over existingRows
findFrom(existingRows, nameField, newName, pos) ==
    LET hits == {j \in pos..(Len(existingRows) - 1) :
                    get(existingRows[j + 1], nameField) = newName}
    IN  IF hits = {} THEN -1 ELSE CHOOSE j \in hits : \A k \in hits : j <= k

\* existingRow[j] = newRow: the row object gets a property with key j
setProperty(existingRow, j, newRow) ==
    [existingRow EXCEPT
       !.props = {q \in @ : q.key # j}
                   \cup {[key |-> j, name |-> newRow.name, data |-> newRow.data]}]

RECURSIVE insertLoop(_, _, _, _, _, _)
\* the loop over newRows, from index i (from 1) on: the existing rows and
\* newArray as the loop leaves them
insertLoop(existingRows, newRows, nameField, pos, newArray, i) ==
    IF i > Len(newRows)
    THEN [existingRows |-> existingRows, newArray |-> newArray]
    ELSE LET newRow == newRows[i]
             j == findFrom(existingRows, nameField, get(newRow, nameField), pos)
         IN  IF j # -1
             THEN insertLoop([existingRows EXCEPT
                                ![j + 1] = setProperty(@, j, newRow)],
                             newRows, nameField, pos, newArray, i + 1)
             ELSE insertLoop(existingRows, newRows, nameField, pos,
                             Append(newArray, newRow), i + 1)

\* appendRows(values, newValues, nameField, pos): values as the action leaves it
appendRows(vals, newValues, nameField, pos) ==
    IF pos = -1
    THEN [rows |-> vals.rows \o newValues.rows, queryConfig |-> newValues.queryConfig]
    ELSE LET r == insertLoop(vals.rows, newValues.rows, nameField, pos,
                             slice(vals.rows, 0, pos), 1)
         IN  [rows |-> r.newArray \o sliceFrom(r.existingRows, pos),
              queryConfig |-> newValues.queryConfig]

\* a call of appendRows on the Tree's values
AppendRows ==
    /\ ~tree.last.called
    /\ \E newRows \in RowLists(NewRows), nameField \in {"name", "data"},
          pos \in -1..Len(tree.values.rows) :
          tree' = [values |-> appendRows(tree.values,
                                         [rows |-> newRows, queryConfig |-> "q1"],
                                         nameField, pos),
                   last |-> [called |-> TRUE, rowsBefore |-> tree.values.rows,
                             newRows |-> newRows, newQueryConfig |-> "q1",
                             nameField |-> nameField, pos |-> pos]]
    /\ UNCHANGED <<heap, currentCondition, calls, before, applied, request, config, pagination>>

\* a Tree that has loaded some rows
InitTree ==
    /\ heap = Pool
    /\ currentCondition = null
    /\ calls = << >>
    /\ before = Pool
    /\ applied = NotApplied
    /\ request = NoRequest
    /\ config = DefaultConfig
    /\ pagination = NoPagination
    /\ \E rows \in RowLists(ExistingRows) :
          tree = [NoTree EXCEPT !.values.rows = rows]

NextTree == AppendRows

SpecTree == InitTree /\ [][NextTree]_vars

\* --------------------------------------------- vocabulary of the properties

\* the last call made
Last == calls[Len(calls)]

\* the ids of a composite's operands, in operand order
MarkerIds(h, cond) ==
    [i \in 1..Len(Operands(h, cond)) |-> h[Operands(h, cond)[i]].id]

\* a Condition named "and" whose operands are Component markers with pairwise
\* distinct ids
IsAndOfDistinctMarkers(h, cond) ==
    /\ cond # null
    /\ h[cond].type = CONDITION
    /\ h[cond].name = "and"
    /\ \A i \in 1..Len(Operands(h, cond)) : h[Operands(h, cond)[i]].type = COMPONENT
    /\ \A i, j \in 1..Len(Operands(h, cond)) :
          i # j => MarkerIds(h, cond)[i] # MarkerIds(h, cond)[j]

\* the positions of the operands of cond that are markers with the given id
PositionsOf(h, cond, id) ==
    {i \in 1..Len(Operands(h, cond)) :
        h[Operands(h, cond)[i]].type = COMPONENT /\ h[Operands(h, cond)[i]].id = id}

\* the call returned a tree other than the composite it was given
ReturnedNewTree(c) == ~c.threw /\ c.value # c.compositeCondition

\* the call returned the very composite it was given (a suppressed update)
ReturnedSameTree(c) ==
    ~c.threw /\ c.compositeCondition # null /\ c.value = c.compositeCondition

RECURSIVE Unfold(_, _)
\* the tree below a reference, as a value: two references unfold to the same
\* value exactly when their trees are structurally equal
Unfold(h, ref) ==
    IF ref = null THEN <<"null">>
    ELSE IF h[ref].type = CONDITION
         THEN <<CONDITION, h[ref].name,
                [i \in 1..Len(Operands(h, ref)) |-> Unfold(h, Operands(h, ref)[i])]>>
    ELSE IF h[ref].type = COMPONENT
         THEN <<COMPONENT, h[ref].id, Unfold(h, h[ref].condition)>>
    ELSE IF h[ref].type = VALUE
         THEN <<VALUE, h[ref].scalarType, h[ref].value>>
    ELSE IF h[ref].type = VALUES
         THEN <<VALUES, h[ref].scalarType, h[ref].values>>
    ELSE <<FIELD, h[ref].name>>

\* a predicate that imposes no constraint: null, or an "and" whose operands are
\* all anonymous markers carrying a null condition
IsEmptyPredicate(h, ref) ==
    \/ ref = null
    \/ /\ h[ref].type = CONDITION
       /\ h[ref].name = "and"
       /\ \A i \in 1..Len(Operands(h, ref)) :
             /\ h[Operands(h, ref)[i]].type = COMPONENT
             /\ h[Operands(h, ref)[i]].id = nullId
             /\ h[Operands(h, ref)[i]].condition = null

\* ------------------------------------------------------------------ claims

\* C1: idempotence by reference. When two successive calls with
\* compareUpdate = true merge the same predicate under the same id, the second
\* being made on what the first returned, the second call returns the very
\* object the first returned.
C1_MergeIdempotentByReference ==
    \A i \in 1..(Len(calls) - 1) :
        ( /\ calls[i].compareUpdate
          /\ calls[i + 1].compareUpdate
          /\ calls[i + 1].componentCondition = calls[i].componentCondition
          /\ calls[i + 1].componentId = calls[i].componentId
          /\ ~calls[i].threw
          /\ calls[i + 1].compositeCondition = calls[i].value )
        => /\ ~calls[i + 1].threw
           /\ calls[i + 1].value = calls[i].value

\* C1 witness: a merge that built a new tree over a non-null composite, then
\* the same merge again, which returned that tree itself.
C1_Witness ==
    /\ Len(calls) = 3
    /\ calls[2].compareUpdate /\ calls[3].compareUpdate
    /\ calls[2].componentCondition = 4 /\ calls[3].componentCondition = 4
    /\ calls[2].componentId = "a" /\ calls[3].componentId = "a"
    /\ calls[2].compositeCondition # null
    /\ ReturnedNewTree(calls[2])
    /\ calls[3].compositeCondition = calls[2].value
    /\ calls[3].value = calls[2].value

\* C2: composite shape. In a history that starts from the null composite every
\* call returns, and what it returns is a Condition named "and" whose operands
\* are all Component markers with pairwise distinct ids.
C2_CompositeShape ==
    Len(calls) > 0 =>
        /\ ~Last.threw
        /\ IsAndOfDistinctMarkers(heap, Last.value)
        /\ currentCondition = Last.value

\* C2 witness: a composite of three markers, one of them with the null id, one
\* of them merged with compareUpdate = false.
C2_Witness ==
    /\ Len(calls) = 3
    /\ Len(Operands(heap, currentCondition)) = 3
    /\ nullId \in {MarkerIds(heap, currentCondition)[i] : i \in 1..3}
    /\ \E i \in 1..3 : ~calls[i].compareUpdate

\* the condition stored under the id in the composite the call was given
\* (the first marker with that id), read from the heap as it was before the call
StoredCondition(c) ==
    LET i == CHOOSE k \in PositionsOf(before, c.compositeCondition, c.componentId) :
                 \A m \in PositionsOf(before, c.compositeCondition, c.componentId) : k <= m
    IN  before[Operands(before, c.compositeCondition)[i]].condition

\* the call was given a composite that holds a marker with the call's id
IdPresent(c) ==
    /\ c.compositeCondition # null
    /\ PositionsOf(before, c.compositeCondition, c.componentId) # {}

\* the call was given a non-null composite that holds no marker with the call's id
IdAbsent(c) ==
    /\ c.compositeCondition # null
    /\ PositionsOf(before, c.compositeCondition, c.componentId) = {}

\* C3: suppression only for no-op updates. A call with compareUpdate = true
\* returns the composite it was given only if the predicate stored under the id
\* and the new predicate are structurally equal or are both empty.
C3_SuppressedOnlyIfNoOp ==
    (Len(calls) > 0 /\ Last.compareUpdate /\ ReturnedSameTree(Last)) =>
        /\ IdPresent(Last)
        /\ \/ Unfold(before, StoredCondition(Last))
                = Unfold(before, Last.componentCondition)
           \/ /\ IsEmptyPredicate(before, StoredCondition(Last))
              /\ IsEmptyPredicate(before, Last.componentCondition)

\* C4: in-place update. When the composite holds a marker with the id and the
\* update is not suppressed, the result has the same number of operands and the
\* same ids at the same positions, the operand at the id's position is a marker
\* whose condition is the very predicate given, and every other operand is the
\* identical, unchanged marker of the input.
C4_UpdateInPlace ==
    (Len(calls) > 0 /\ IdPresent(Last) /\ ~ReturnedSameTree(Last)) =>
        LET old == Operands(before, Last.compositeCondition)
            new == Operands(heap, Last.value)
        IN  /\ ~Last.threw
            /\ Len(new) = Len(old)
            /\ MarkerIds(heap, Last.value) = MarkerIds(before, Last.compositeCondition)
            /\ \A i \in 1..Len(old) :
                  IF before[old[i]].id = Last.componentId
                  THEN /\ heap[new[i]].type = COMPONENT
                       /\ heap[new[i]].condition = Last.componentCondition
                  ELSE /\ new[i] = old[i]
                       /\ heap[new[i]] = before[old[i]]

\* C4 witness: the first of two markers is given another predicate.
C4_Witness ==
    /\ Len(calls) = 3
    /\ IdPresent(Last)
    /\ ReturnedNewTree(Last)
    /\ Len(Operands(before, Last.compositeCondition)) = 2
    /\ before[Operands(before, Last.compositeCondition)[1]].id = Last.componentId
    /\ Last.componentCondition = 4
    /\ StoredCondition(Last) = null

\* C5: append. When the composite is not null and holds no marker with the id,
\* the result's operands are the input's operands, the same objects in the same
\* order, followed by one new marker with the id and the predicate given.
C5_AppendAtEnd ==
    (Len(calls) > 0 /\ IdAbsent(Last)) =>
        LET old == Operands(before, Last.compositeCondition)
            new == Operands(heap, Last.value)
        IN  /\ ReturnedNewTree(Last)
            /\ Len(new) = Len(old) + 1
            /\ \A i \in 1..Len(old) : new[i] = old[i] /\ heap[new[i]] = before[old[i]]
            /\ new[Len(new)] > Len(before)
            /\ heap[new[Len(new)]]
                 = componentOf(Last.componentId, Last.componentCondition)

\* C5 witness: a third marker is appended to a composite of two.
C5_Witness ==
    /\ Len(calls) = 3
    /\ IdAbsent(Last)
    /\ Len(Operands(before, Last.compositeCondition)) = 2
    /\ Len(Operands(heap, Last.value)) = 3
    /\ heap[Operands(heap, Last.value)[3]].id = Last.componentId

\* C6: empty-root creation. A call on the null composite returns, for every
\* predicate, id and compareUpdate, a new Condition named "and" with exactly
\* one operand, a new Component marker with that id and that predicate.
C6_EmptyRootCreation ==
    (Len(calls) > 0 /\ Last.compositeCondition = null) =>
        /\ ~Last.threw
        /\ Last.value # null
        /\ Last.value > Len(before)
        /\ heap[Last.value].type = CONDITION
        /\ heap[Last.value].name = "and"
        /\ Len(Operands(heap, Last.value)) = 1
        /\ Operands(heap, Last.value)[1] > Len(before)
        /\ heap[Operands(heap, Last.value)[1]]
             = componentOf(Last.componentId, Last.componentCondition)

\* C6 witness: the first merge contributes the null predicate under the null
\* id with compareUpdate = true.
C6_Witness ==
    /\ Len(calls) = 1
    /\ Last.compositeCondition = null
    /\ Last.componentCondition = null
    /\ Last.componentId = nullId
    /\ Last.compareUpdate
    /\ Len(Operands(heap, currentCondition)) = 1

\* the call was given a logical composite with an operand that is no marker
HasForeignOperand(c) ==
    /\ c.compositeCondition # null
    /\ isLogicalCondition(before, c.compositeCondition)
    /\ \E i \in 1..Len(Operands(before, c.compositeCondition)) :
          before[Operands(before, c.compositeCondition)[i]].type # COMPONENT

\* the objects the last call created
Created == {a \in 1..Len(heap) : a > Len(before)}

\* C7: a logical composite with an operand that is not a Component marker, at
\* any position, makes every call fail with the invalid-structure error; no
\* tree is returned, neither a new one nor the original.
C7_ForeignOperandRejected ==
    (Len(calls) > 0 /\ HasForeignOperand(Last)) =>
        Last.threw /\ Last.error = InvalidComponentStructure

\* C8: a non-null composite that is not a Condition named "and" or "or" makes
\* every call fail with an error before any tree is built: the call leaves
\* nothing behind but the marker made on entry.
C8_InvalidRootRejected ==
    ( /\ Len(calls) > 0
      /\ Last.compositeCondition # null
      /\ ~ ( /\ before[Last.compositeCondition].type = CONDITION
             /\ before[Last.compositeCondition].name \in {"and", "or"} ) )
    => /\ Last.threw
       /\ Last.error = InvalidCurrentCondition
       /\ currentCondition = Last.compositeCondition
       /\ \A a \in Created : heap[a].type = COMPONENT

\* C8 witness: a "not" Condition over a marker as the root, and a call for
\* that marker's id, has thrown.
C8_Witness ==
    /\ Len(calls) = 1
    /\ Last.compositeCondition # null
    /\ before[Last.compositeCondition].type = CONDITION
    /\ before[Last.compositeCondition].name = "not"
    /\ Last.componentId = "a"
    /\ ~Last.compareUpdate
    /\ Last.threw

\* C9: no input mutation. Whatever the call does (new tree, the original, an
\* error), every object that existed before it, the composite, its operand
\* list, its markers and the predicate given among them, is unchanged after it.
C9_NoInputMutation ==
    /\ Len(heap) >= Len(before)
    /\ \A a \in 1..Len(before) : heap[a] = before[a]

\* C9 witness: over the same hand-built composite, and(component("a", null),
\* field("age")), a call that threw in the loop after the marker had been
\* copied, followed by a call that threw again.
C9_Witness ==
    /\ Len(calls) = 2
    /\ calls[1].threw /\ calls[1].error = InvalidComponentStructure
    /\ Last.threw /\ Last.error = InvalidComponentStructure
    /\ Len(Operands(before, Last.compositeCondition)) = 2
    /\ before[Operands(before, Last.compositeCondition)[1]].type = COMPONENT
    /\ Len(heap) > Len(before)

RECURSIVE FirstSeen(_, _)
\* the ids of the first n calls in the order of their first occurrence
FirstSeen(cs, n) ==
    IF n = 0 THEN << >>
    ELSE LET earlier == FirstSeen(cs, n - 1)
         IN  IF \E k \in 1..Len(earlier) : earlier[k] = cs[n].componentId
             THEN earlier
             ELSE Append(earlier, cs[n].componentId)

\* C10: first-seen order. After any history from the null composite the ids of
\* the composite's markers are the ids merged so far, in the order in which
\* each was merged first.
C10_FirstSeenOrder ==
    Len(calls) > 0 =>
        MarkerIds(heap, currentCondition) = FirstSeen(calls, Len(calls))

\* C10 witness: "b" was merged first, then "a", then "b" was given another
\* predicate, and the order is still b, a.
C10_Witness ==
    /\ Len(calls) = 3
    /\ calls[1].componentId = "b"
    /\ calls[2].componentId = "a"
    /\ calls[3].componentId = "b"
    /\ ReturnedNewTree(calls[3])
    /\ MarkerIds(heap, currentCondition) = <<"b", "a">>

\* an "and" Condition whose every operand is a Component marker with the null
\* id (an "and" without operands included)
AllAnonymous(h, node) ==
    /\ node # null
    /\ h[node].type = CONDITION
    /\ h[node].name = "and"
    /\ \A i \in 1..Len(Operands(h, node)) :
          /\ h[Operands(h, node)[i]].type = COMPONENT
          /\ h[Operands(h, node)[i]].id = nullId

IsValidComposite(h, cond) == cond = null \/ IsAndOfDistinctMarkers(h, cond)

\* C12: canonical-empty equivalence. When the marker for the id holds a
\* predicate that is null or an "and" of anonymous markers with null
\* conditions, merging such a predicate with compareUpdate = true returns the
\* composite itself; the predicate simplifies to null and compares equal to
\* null with treatEmptyAsEqual = true.
C12_EmptyForEmptyIsSuppressed ==
    ( /\ Len(calls) > 0
      /\ Last.compareUpdate
      /\ IsValidComposite(before, Last.compositeCondition)
      /\ IdPresent(Last)
      /\ IsEmptyPredicate(before, StoredCondition(Last))
      /\ IsEmptyPredicate(before, Last.componentCondition) )
    => /\ ReturnedSameTree(Last)
       /\ simplifyCondition(heap, Last.componentCondition) = null
       /\ simplifyCondition(heap, StoredCondition(Last)) = null
       /\ compareConditions(heap, Last.componentCondition, null, TRUE)
       /\ compareConditions(heap, null, StoredCondition(Last), TRUE)

\* C12 witness: the marker holds and(component(null, null), component(null,
\* null)) and and(component(null, null)) is merged.
C12_Witness ==
    /\ Len(calls) = 2
    /\ Last.compareUpdate
    /\ ~Last.threw
    /\ IdPresent(Last)
    /\ StoredCondition(Last) = 17
    /\ Last.componentCondition = 11
    /\ ReturnedSameTree(Last)

\* C13: clearing a filter keeps the slot. When the marker for the id holds a
\* predicate that does not simplify to null and null is merged, the call
\* returns a new tree with the same number of operands in which the marker for
\* the id is at the same position, with condition null.
C13_ClearKeepsSlot ==
    ( /\ Len(calls) > 0
      /\ IdPresent(Last)
      /\ Last.componentCondition = null
      /\ simplifyCondition(before, StoredCondition(Last)) # null )
    => LET old == Operands(before, Last.compositeCondition)
           new == Operands(heap, Last.value)
       IN  /\ ReturnedNewTree(Last)
           /\ Len(new) = Len(old)
           /\ \A i \in 1..Len(old) :
                 before[old[i]].id = Last.componentId
                 => heap[new[i]] = componentOf(Last.componentId, null)

\* C13 witness: with compareUpdate = true, the second of two markers held the
\* gte predicate and is cleared.
C13_Witness ==
    /\ Len(calls) = 3
    /\ Last.compareUpdate
    /\ IdPresent(Last)
    /\ Last.componentCondition = null
    /\ StoredCondition(Last) = 4
    /\ Len(Operands(heap, Last.value)) = 2
    /\ heap[Operands(heap, Last.value)[2]] = componentOf(Last.componentId, null)
    /\ Last.value # Last.compositeCondition

\* C14: compareUpdate = false disables suppression. On a non-null composite
\* such a call never returns the composite: it returns a new Condition with a
\* new operand list in which the slot of the id holds a new marker with the
\* predicate given.  Every result of a call is the composite given (only with
\* compareUpdate = true) or a new Condition.
C14_NoSuppressionWithoutCompare ==
    Len(calls) > 0 =>
        /\ (~Last.compareUpdate /\ Last.compositeCondition # null) =>
              /\ ReturnedNewTree(Last)
              /\ heap[Last.value].operands > Len(before)
              /\ \E i \in 1..Len(Operands(heap, Last.value)) :
                    /\ Operands(heap, Last.value)[i] > Len(before)
                    /\ heap[Operands(heap, Last.value)[i]]
                         = componentOf(Last.componentId, Last.componentCondition)
        /\ ~Last.threw =>
              \/ Last.value = Last.compositeCondition /\ Last.compareUpdate
              \/ Last.value > Len(before) /\ heap[Last.value].type = CONDITION

\* C14 witness: the very predicate the marker holds is merged again with
\* compareUpdate = false and a new tree comes back.
C14_Witness ==
    /\ Len(calls) = 2
    /\ ~Last.compareUpdate
    /\ IdPresent(Last)
    /\ StoredCondition(Last) = 4
    /\ Last.componentCondition = 4
    /\ ReturnedNewTree(Last)

\* C15: the comparator and null. compare(null, null, flag) is true; for a
\* non-null node x, compare(null, x, flag) and compare(x, null, flag) are true
\* exactly when flag is true and x simplifies to null, that is, x is an "and"
\* of anonymous markers.
C15_CompareWithNull ==
    applied.fn = "compareConditions" =>
        /\ (applied.a = null /\ applied.b = null) => applied.result = 1
        /\ (applied.a = null /\ applied.b # null) =>
              (applied.result = 1 <=> applied.flag /\ AllAnonymous(heap, applied.b))
        /\ (applied.a # null /\ applied.b = null) =>
              (applied.result = 1 <=> applied.flag /\ AllAnonymous(heap, applied.a))

\* C15 witness: compare(null, and(component(null, null), component(null,
\* null)), true) is true.
C15_Witness ==
    /\ applied.fn = "compareConditions"
    /\ applied.a = null
    /\ applied.b = 17
    /\ applied.flag
    /\ applied.result = 1

\* C16: the comparator is order-sensitive. Two Values nodes of the same
\* scalarType are equal exactly when their value lists are the same sequence;
\* two Condition nodes of the same name are equal, with treatEmptyAsEqual =
\* false, exactly when their operand lists agree position by position.
C16_CompareOrderSensitive ==
    (applied.fn = "compareConditions" /\ applied.a # null /\ applied.b # null) =>
        /\ ( /\ heap[applied.a].type = VALUES
             /\ heap[applied.b].type = VALUES
             /\ heap[applied.a].scalarType = heap[applied.b].scalarType )
           => ( applied.result = 1 <=>
                  /\ Len(heap[applied.a].values) = Len(heap[applied.b].values)
                  /\ \A i \in 1..Len(heap[applied.a].values) :
                        heap[applied.a].values[i] = heap[applied.b].values[i] )
        /\ ( /\ heap[applied.a].type = CONDITION
             /\ heap[applied.b].type = CONDITION
             /\ heap[applied.a].name = heap[applied.b].name
             /\ ~applied.flag )
           => ( applied.result = 1 <=>
                  /\ Len(Operands(heap, applied.a)) = Len(Operands(heap, applied.b))
                  /\ \A i \in 1..Len(Operands(heap, applied.a)) :
                        Unfold(heap, Operands(heap, applied.a)[i])
                          = Unfold(heap, Operands(heap, applied.b)[i]) )

\* C16 witness: compare(values("String", "a", "b"), values("String", "b",
\* "a"), false) is false.
C16_Witness ==
    /\ applied.fn = "compareConditions"
    /\ applied.a = 31
    /\ applied.b = 32
    /\ heap[31].values = <<"a", "b">>
    /\ heap[32].values = <<"b", "a">>
    /\ ~applied.flag
    /\ applied.result = 0

\* the variables were converted: the same names, and each value converted
\* once, to the wire, with the type declared for its name
SentConverted(decl, given, sent) ==
    /\ sent.defined = given.defined
    /\ DOMAIN sent.map = DOMAIN given.map
    /\ \A name \in DOMAIN given.map :
          /\ sent.map[name].v = given.map[name].v
          /\ sent.map[name].conv = << <<decl.vars[name], "toWire">> >>

\* the results were converted: the data has, under every queried method's
\* name, the value received for the method converted once, from the wire,
\* with the type of the method
ReceivedConverted(decl, raw, data) ==
    \A i \in 1..Len(decl.methods) :
        LET methodName == decl.methods[i]
        IN  /\ methodName \in DOMAIN data
            /\ data[methodName].v = raw[ResponseKey(decl, methodName)].v
            /\ data[methodName].conv =
                   << <<getGraphQLMethodType(methodName), "fromWire">> >>

\* C17: graphql() converts if and only if params.autoConvert is not false.
\* Unless it is false, a request that was sent carries every given variable
\* converted with the type declared for it, and the data the call resolves
\* to has every queried method's result converted from the wire; when it is
\* false, the variables are sent exactly as given, the data is returned
\* exactly as received, and the call never fails before sending.
C17_AutoConvertUnlessFalse ==
    LET decl == QueryDecls[request.decl]
    IN  /\ request.pc \in {"sent", "rejected", "resolved"} =>
              IF request.autoConvert # "false"
              THEN SentConverted(decl, request.variables, request.sent)
              ELSE request.sent = request.variables
        /\ request.pc = "resolved" =>
              IF request.autoConvert # "false"
              THEN ReceivedConverted(decl, request.raw, request.data)
              ELSE request.data = request.raw
        /\ request.pc = "threw" => request.autoConvert # "false"

\* a call without autoConvert, with a variable and an aliased method, has
\* resolved
C17_Witness ==
    /\ request.pc = "resolved"
    /\ request.autoConvert = "undefined"
    /\ request.decl = 2
    /\ request.variables.defined
    /\ "x" \in DOMAIN request.variables.map
    /\ request.sent.map["x"].conv = << <<"Int", "toWire">> >>
    /\ request.data["getFoo"].conv = << <<"Foo", "fromWire">> >>
    /\ request.data["getFoo"].v = request.raw["foo"].v

\* C18: simplifyCondition gives null only for predicates without constraint:
\* when it is null for a non-null node, the node is an "and" all of whose
\* operands are Component markers with a null condition.
C18_SimplifyOnlyVacuous ==
    ( /\ applied.fn = "simplifyCondition"
      /\ applied.a # null
      /\ applied.result = null )
    => /\ heap[applied.a].type = CONDITION
       /\ heap[applied.a].name = "and"
       /\ \A i \in 1..Len(Operands(heap, applied.a)) :
             /\ heap[Operands(heap, applied.a)[i]].type = COMPONENT
             /\ heap[Operands(heap, applied.a)[i]].condition = null

\* the composite holds no marker with the id (the null composite holds none)
Absent(h, cond, id) == cond = null \/ PositionsOf(h, cond, id) = {}

\* the composite holds a marker with the id, and that marker holds the predicate
Holds(h, cond, id, predicate) ==
    /\ cond # null
    /\ \E i \in PositionsOf(h, cond, id) : h[Operands(h, cond)[i]].condition = predicate

\* C19: stale snapshots lose updates. When two successive calls for distinct
\* ids, both absent from the composite C, are both made on C and their results
\* stored one after the other, the second call returns without error and the
\* composite stored last holds the second id's marker and none for the first
\* id; when the second call is made on the first call's result, the composite
\* stored last holds both markers.
C19_StaleSnapshotLosesUpdate ==
    Len(calls) >= 2 =>
        LET first == calls[Len(calls) - 1]
            second == Last
        IN  ( /\ ~first.threw
              /\ first.componentId # second.componentId
              /\ Absent(heap, first.compositeCondition, first.componentId)
              /\ Absent(heap, first.compositeCondition, second.componentId) )
            => /\ second.compositeCondition = first.compositeCondition =>
                    /\ ~second.threw
                    /\ currentCondition = second.value
                    /\ Holds(heap, currentCondition, second.componentId,
                             second.componentCondition)
                    /\ Absent(heap, currentCondition, first.componentId)
               /\ second.compositeCondition = first.value =>
                    /\ ~second.threw
                    /\ currentCondition = second.value
                    /\ Holds(heap, currentCondition, second.componentId,
                             second.componentCondition)
                    /\ Holds(heap, currentCondition, first.componentId,
                             first.componentCondition)

\* C19 witness: on a composite that holds one marker, "b" is merged, then the
\* null id is merged into the same snapshot; the stored composite has the
\* marker of the null id and none for "b".
C19_Witness ==
    /\ Len(calls) = 2
    /\ calls[1].compositeCondition # null
    /\ calls[2].compositeCondition = calls[1].compositeCondition
    /\ calls[1].componentId = "b"
    /\ calls[2].componentId = nullId
    /\ calls[1].componentCondition = 4
    /\ Absent(heap, calls[1].compositeCondition, "b")
    /\ Absent(heap, calls[1].compositeCondition, nullId)
    /\ Holds(heap, calls[1].value, "b", 4)
    /\ Absent(heap, currentCondition, "b")
    /\ PositionsOf(heap, currentCondition, nullId) # {}

\* C20: the root name is carried over. On a logical Condition ("and" or "or")
\* of Component markers a call returns without error a Condition with the
\* name of the root it was given; a call on the null composite returns a
\* Condition named "and".
C20_RootNameCarriedOver ==
    Len(calls) > 0 =>
        /\ ( /\ Last.compositeCondition # null
             /\ before[Last.compositeCondition].type = CONDITION
             /\ before[Last.compositeCondition].name \in {"and", "or"}
             /\ \A i \in 1..Len(Operands(before, Last.compositeCondition)) :
                   before[Operands(before, Last.compositeCondition)[i]].type = COMPONENT )
           => /\ ~Last.threw
              /\ heap[Last.value].type = CONDITION
              /\ heap[Last.value].name = before[Last.compositeCondition].name
        /\ Last.compositeCondition = null =>
              ~Last.threw /\ heap[Last.value].name = "and"

\* C20 witness: a marker is appended to or(component("a", ...)) and the new
\* root is named "or".
C20_Witness ==
    /\ Len(calls) = 1
    /\ Last.compositeCondition # null
    /\ before[Last.compositeCondition].name = "or"
    /\ ReturnedNewTree(Last)
    /\ heap[Last.value].name = "or"
    /\ Len(Operands(heap, Last.value)) = 2

\* the operands of a composite, none for the null composite
OperandsOrNone(h, cond) == IF cond = null THEN << >> ELSE Operands(h, cond)

\* the ids of the markers in a list of operands
IdsOf(h, ops) == {h[ops[i]].id : i \in 1..Len(ops)}

\* C21: markers are never removed and suppression requires an existing slot.
\* Every call in a sequence from null returns a tree that holds every id the
\* composite held and the id of the call, with as many operands as before when
\* the id was present and one more when it was absent; and a call that merges
\* null or an empty predicate under an absent id returns a new tree whose last
\* operand is a new marker with that id and that predicate.
C21_MarkersOnlyGrow ==
    Len(calls) > 0 =>
        LET old == OperandsOrNone(before, Last.compositeCondition)
            new == OperandsOrNone(heap, Last.value)
            present == Last.componentId \in IdsOf(before, old)
        IN  /\ ~Last.threw
            /\ Last.value # null
            /\ IdsOf(before, old) \subseteq IdsOf(heap, new)
            /\ Last.componentId \in IdsOf(heap, new)
            /\ Len(new) = IF present THEN Len(old) ELSE Len(old) + 1
            /\ (~present /\ IsEmptyPredicate(before, Last.componentCondition)) =>
                  /\ Last.value # Last.compositeCondition
                  /\ Last.value > Len(before)
                  /\ new[Len(new)] > Len(before)
                  /\ heap[new[Len(new)]]
                       = componentOf(Last.componentId, Last.componentCondition)

\* an empty predicate is merged, with compareUpdate, under an id that the
\* composite of two markers does not hold, and a third marker is appended
C21_Witness ==
    /\ Len(calls) = 3
    /\ Last.compareUpdate
    /\ Last.componentCondition = 11
    /\ Last.compositeCondition # null
    /\ Last.componentId \notin IdsOf(before, Operands(before, Last.compositeCondition))
    /\ Len(Operands(before, Last.compositeCondition)) = 2
    /\ Len(Operands(heap, Last.value)) = 3
    /\ Last.value # Last.compositeCondition

\* the comparison applied is reflexive and symmetric
ReflexiveAndSymmetric ==
    /\ compareConditions(heap, applied.a, applied.a, applied.flag)
    /\ compareConditions(heap, applied.b, applied.b, applied.flag)
    /\ applied.result = 1 <=> compareConditions(heap, applied.b, applied.a, applied.flag)

\* the comparison applied is transitive: when a and b are equal, every node
\* equal to b is equal to a
Transitive ==
    applied.result = 1 =>
        \A c \in NodeRefs(heap) :
            compareConditions(heap, applied.b, c, applied.flag)
                => compareConditions(heap, applied.a, c, applied.flag)

\* the comparison applied is true exactly for structurally identical trees
Structural ==
    applied.result = 1 <=> Unfold(heap, applied.a) = Unfold(heap, applied.b)

Range(seq) == {seq[i] : i \in 1..Len(seq)}

\* C23: config key validation. A read or an assignment of a property whose
\* name is not a Symbol and not a valid config key fails with "Invalid config
\* key: <name>" and leaves the config unchanged; valid keys are read and
\* written normally; after addConfig(name, value) the name is in config.keys and
\* config[name] is read as value without error.
C23_ConfigKeyValidation ==
    LET l == config.last
        valid == l.property \in Range(l.keysBefore)
    IN  /\ ( /\ l.op \in {"get", "set"}
              /\ l.property # "keys"
              /\ l.property \notin Symbols
              /\ ~valid )
            => /\ l.threw
               /\ l.error = InvalidConfigKey(l.property)
               /\ config.store = l.storeBefore
               /\ config.VALID_KEYS = l.keysBefore
        /\ (l.op = "get" /\ l.property # "keys" /\ valid)
            => ~l.threw /\ l.result = l.storeBefore[l.property]
        /\ (l.op = "set" /\ valid)
            => /\ ~l.threw
               /\ config.store = [l.storeBefore EXCEPT ![l.property] = l.value]
        /\ l.op = "addConfig"
            => /\ ~l.threw
               /\ l.property \in Range(config.VALID_KEYS)
               /\ ~ensureValid(l.property)
               /\ config.store[l.property] = l.value

\* C24: Pagination never requests an out-of-range page. For a click on the
\* control of a button, made when the offset is a multiple of the page size
\* within range: if the click calls iQuery.update, the offset is page * pageSize
\* for a page with 0 <= page < numPages other than the current page; and a
\* control whose target page is out of range or is the current page triggers
\* no update.
C24_NoOutOfRangePage ==
    LET l == pagination.last
        numPages == numPagesOf(l.rowCount, l.pageSize)
        currentPage == currentPageOf(l.offset, l.pageSize)
        inRange(page) == 0 <= page /\ page < numPages
    IN  ( /\ l.control = "button"
          /\ l.offset = currentPage * l.pageSize
          /\ inRange(currentPage) )
        => /\ l.updated => /\ l.update = l.page * l.pageSize
                            /\ inRange(l.page)
                            /\ l.page # currentPage
           /\ (~inRange(l.page) \/ l.page = currentPage) => ~l.updated

\* the elements of a list that satisfy a test, in order
RECURSIVE Select(_, _, _)
Select(rows, keep(_), i) ==
    IF i > Len(rows) THEN << >>
    ELSE (IF keep(rows[i]) THEN <<rows[i]>> ELSE << >>) \o Select(rows, keep, i + 1)

\* C25: appendRows with pos >= 0 leaves the rows before pos unchanged, then
\* inserts, in order, every new row whose name matches no existing row at
\* index >= pos, then keeps the existing rows from pos on, each replaced by a
\* new row of the same name when there is one; with pos = -1 the new rows are
\* appended at the end; in both cases values.queryConfig is
\* newValues.queryConfig. Names are taken to be keys: the case is stated for
\* existing rows from pos on with distinct names and new rows with distinct names.
C25_InsertOrReplace ==
    LET l == tree.last
        old == l.rowsBefore
        rows == tree.values.rows
        name(row) == row[l.nameField]
        tail == IF l.pos >= 0 THEN sliceFrom(old, l.pos) ELSE << >>
        matched(newRow) == \E k \in 1..Len(tail) : name(tail[k]) = name(newRow)
        unmatched(newRow) == ~matched(newRow)
        inserted == Select(l.newRows, unmatched, 1)
        distinct(list) == \A i \in 1..Len(list), k \in 1..Len(list) :
                              i # k => name(list[i]) # name(list[k])
    IN  (l.called /\ distinct(tail) /\ distinct(l.newRows)) =>
          /\ tree.values.queryConfig = l.newQueryConfig
          /\ l.pos = -1 => rows = old \o l.newRows
          /\ l.pos >= 0 =>
                /\ Len(rows) = Len(old) + Len(inserted)
                /\ SubSeq(rows, 1, l.pos) = SubSeq(old, 1, l.pos)
                /\ SubSeq(rows, l.pos + 1, l.pos + Len(inserted)) = inserted
                /\ \A k \in 1..Len(tail) :
                      LET row == rows[l.pos + Len(inserted) + k]
                          fresher == {i \in 1..Len(l.newRows) :
                                         name(l.newRows[i]) = name(tail[k])}
                      IN  IF fresher = {} THEN row = tail[k]
                          ELSE \E i \in fresher : row = l.newRows[i]

====
